---- MODULE Spec2Model ----
(***************************************************************************)
(* Image Download API (Go): the /download handler, its fetch workers, the  *)
(* filename derivation and the archive assembly, as a state machine.       *)
(*                                                                         *)
(* src/main.go holds two builds of the server:                             *)
(*   "urls"      lines   1-222  body {urls, zipReturn}, directory          *)
(*               downloaded_images, limit of 10 URLs, JSON or ZIP answer;  *)
(*   "imageURLs" lines 223-428  body {imageURLs, destDir}, directory       *)
(*               temp_downloads removed on return, ZIP answer only.        *)
(* downloadImage and generateFilename are the same in both.                *)
(***************************************************************************)
EXTENDS Integers, Sequences, FiniteSets, TLC

(***************************************************************************)
(* Strings.  A string is a TLA+ string; Len, \o and SubSeq work on it.     *)
(***************************************************************************)
Ch(s, i) == SubSeq(s, i, i)

DropFirst(s, n) == SubSeq(s, n + 1, Len(s))

HasPrefix(s, p) == Len(s) >= Len(p) /\ SubSeq(s, 1, Len(p)) = p

HasSuffix(s, p) == Len(s) >= Len(p) /\ SubSeq(s, Len(s) - Len(p) + 1, Len(s)) = p

Contains(s, p) == \E i \in 1..(Len(s) - Len(p) + 1) : SubSeq(s, i, i + Len(p) - 1) = p

\* strings.Index for a one-character needle; 0 when absent
Index(s, c) ==
    IF \E i \in 1..Len(s) : Ch(s, i) = c
    THEN CHOOSE i \in 1..Len(s) : Ch(s, i) = c /\ \A j \in 1..(i - 1) : Ch(s, j) # c
    ELSE 0

\* strings.LastIndex for a one-character needle; 0 when absent
LastIndex(s, c) ==
    IF \E i \in 1..Len(s) : Ch(s, i) = c
    THEN CHOOSE i \in 1..Len(s) : Ch(s, i) = c /\ \A j \in (i + 1)..Len(s) : Ch(s, j) # c
    ELSE 0

Count(s, c) == Cardinality({i \in 1..Len(s) : Ch(s, i) = c})

Before(s, i) == IF i = 0 THEN s ELSE SubSeq(s, 1, i - 1)

After(s, i) == IF i = 0 THEN "" ELSE DropFirst(s, i)

\* strings.Cut(s, c): the text before and after the first c
CutBefore(s, c) == Before(s, Index(s, c))

CutAfter(s, c) == After(s, Index(s, c))

LowerCh == {"a", "b", "c", "d", "e", "f", "g", "h", "i", "j", "k", "l", "m",
            "n", "o", "p", "q", "r", "s", "t", "u", "v", "w", "x", "y", "z"}

UpperCh == {"A", "B", "C", "D", "E", "F", "G", "H", "I", "J", "K", "L", "M",
            "N", "O", "P", "Q", "R", "S", "T", "U", "V", "W", "X", "Y", "Z"}

DigitCh == {"0", "1", "2", "3", "4", "5", "6", "7", "8", "9"}

HexCh == DigitCh \cup {"a", "b", "c", "d", "e", "f", "A", "B", "C", "D", "E", "F"}

AlnumCh == LowerCh \cup UpperCh \cup DigitCh

(***************************************************************************)
(* net/url as generateFilename uses it: Parse, Query().Get, QueryUnescape. *)
(***************************************************************************)
\* the printable ASCII bytes 32..95 and 97..126 (a backquote, byte 96, cannot be
\* written in a TLA+ string and decodes to OtherByte)
PrintableLo == " !\"#$%&'()*+,-./0123456789:;<=>?@ABCDEFGHIJKLMNOPQRSTUVWXYZ[\\]^_"

PrintableHi == "abcdefghijklmnopqrstuvwxyz{|}~"

\* the byte a control or non-ASCII escape decodes to: outside every class below
OtherByte == "\t"

HexDigits == "0123456789abcdef"

HexAt(lower, upper) == IF lower # 0 THEN lower - 1 ELSE upper + 9

HexVal(c) == HexAt(Index(HexDigits, c), Index("ABCDEF", c))

ByteCh(n) ==
    IF n \in 32..95 THEN Ch(PrintableLo, n - 31)
    ELSE IF n \in 97..126 THEN Ch(PrintableHi, n - 96)
    ELSE OtherByte

\* every % is followed by two hex digits
EscapesOK(s) ==
    \A i \in 1..Len(s) :
        Ch(s, i) = "%" => /\ i + 2 <= Len(s)
                          /\ Ch(s, i + 1) \in HexCh
                          /\ Ch(s, i + 2) \in HexCh

RECURSIVE Decode(_, _)
Decode(s, plus) ==
    IF s = "" THEN ""
    ELSE IF Ch(s, 1) = "%" /\ Len(s) >= 3
         THEN ByteCh(16 * HexVal(Ch(s, 2)) + HexVal(Ch(s, 3))) \o Decode(DropFirst(s, 3), plus)
         ELSE IF Ch(s, 1) = "+" /\ plus
              THEN " " \o Decode(DropFirst(s, 1), plus)
              ELSE Ch(s, 1) \o Decode(DropFirst(s, 1), plus)

Unescaped(s, ok, plus) == [ok |-> ok, s |-> IF ok THEN Decode(s, plus) ELSE ""]

\* url.QueryUnescape: %XX and '+'; fails on a malformed escape
QueryUnescape(s) == Unescaped(s, EscapesOK(s), TRUE)

\* url.PathUnescape, as setPath applies it
PathUnescape(s) == Unescaped(s, EscapesOK(s), FALSE)

\* getScheme: the index of the ':' that ends the scheme, 0 without a scheme
RECURSIVE SchemeEnd(_, _)
SchemeEnd(s, i) ==
    IF i > Len(s) THEN [ok |-> TRUE, n |-> 0]
    ELSE IF Ch(s, i) \in LowerCh \cup UpperCh THEN SchemeEnd(s, i + 1)
    ELSE IF Ch(s, i) \in DigitCh \cup {"+", "-", "."}
         THEN IF i = 1 THEN [ok |-> TRUE, n |-> 0] ELSE SchemeEnd(s, i + 1)
    ELSE IF Ch(s, i) = ":"
         THEN IF i = 1 THEN [ok |-> FALSE, n |-> 0] ELSE [ok |-> TRUE, n |-> i]
    ELSE [ok |-> TRUE, n |-> 0]

SchemeAt(s, e) == [ok |-> e.ok, scheme |-> SubSeq(s, 1, e.n - 1), rest |-> DropFirst(s, e.n)]

\* getScheme: [ok, scheme, rest]
getScheme(s) == SchemeAt(s, SchemeEnd(s, 1))

HostPunct == {"-", "_", ".", "~", "!", "$", "&", "'", "(", ")", "*", "+", ",",
              ";", "=", ":", "[", "]", "<", ">", "\""}

validOptionalPort(p) ==
    p = "" \/ (Ch(p, 1) = ":" /\ \A i \in 2..Len(p) : Ch(p, i) \in DigitCh)

HostOK(h, bracket, colon) ==
    /\ IF HasPrefix(h, "[")
       THEN bracket # 0 /\ validOptionalPort(DropFirst(h, bracket))
       ELSE colon = 0 \/ validOptionalPort(DropFirst(h, colon - 1))
    /\ \A i \in 1..Len(h) : Ch(h, i) \in AlnumCh \cup HostPunct

\* parseHost: a bracketed literal needs its ']', a port is digits, and every
\* character is one a host may hold
parseHost(h) == HostOK(h, LastIndex(h, "]"), LastIndex(h, ":"))

UserinfoPunct == {"-", ".", "_", ":", "~", "!", "$", "&", "'", "(", ")", "*", "+",
                  ",", ";", "=", "%", "@"}

UserHost(user, host) ==
    [ok   |-> /\ parseHost(host)
              /\ \A i \in 1..Len(user) : Ch(user, i) \in AlnumCh \cup UserinfoPunct
              /\ EscapesOK(user),
     host |-> host]

AuthorityAt(a, at) == UserHost(SubSeq(a, 1, at - 1), DropFirst(a, at))

\* parseAuthority: [ok, host], the user information before the last '@'
parseAuthority(a) == AuthorityAt(a, LastIndex(a, "@"))

BadURL == [ok |-> FALSE, host |-> "", path |-> "", rawQuery |-> ""]

\* setPath and setFragment
WithPath(host, p, query, fragOK) ==
    IF ~p.ok \/ ~fragOK THEN BadURL
    ELSE [ok |-> TRUE, host |-> host, path |-> p.s, rawQuery |-> query]

WithAuthority(a, pTxt, query, frag) ==
    IF ~a.ok THEN BadURL ELSE WithPath(a.host, PathUnescape(pTxt), query, EscapesOK(frag))

ParseAuthority(aTxt, rest, query, frag) ==
    WithAuthority(parseAuthority(aTxt), DropFirst(rest, 2 + Len(aTxt)), query, frag)

\* parse, after the scheme and the query are cut off
ParseRest(scheme, rest, query, frag) ==
    IF ~HasPrefix(rest, "/") /\ scheme # ""
    THEN [ok |-> EscapesOK(frag), host |-> "", path |-> "", rawQuery |-> query]
    ELSE IF ~HasPrefix(rest, "/") /\ Contains(CutBefore(rest, "/"), ":") THEN BadURL
    ELSE IF HasPrefix(rest, "//") /\ (scheme # "" \/ ~HasPrefix(rest, "///"))
         THEN ParseAuthority(CutBefore(DropFirst(rest, 2), "/"), rest, query, frag)
    ELSE WithPath("", PathUnescape(rest), query, EscapesOK(frag))

\* a lone trailing '?' is dropped, else the query is what follows the first '?'
ParseQueryCut(scheme, rest, force, frag) ==
    IF force THEN ParseRest(scheme, SubSeq(rest, 1, Len(rest) - 1), "", frag)
    ELSE ParseRest(scheme, CutBefore(rest, "?"), CutAfter(rest, "?"), frag)

ParseScheme(sch, frag) ==
    IF ~sch.ok THEN BadURL
    ELSE ParseQueryCut(sch.scheme, sch.rest,
                       HasSuffix(sch.rest, "?") /\ Count(sch.rest, "?") = 1, frag)

ParseFragment(u, frag) ==
    IF \E i \in 1..Len(u) : Ch(u, i) \in {"\t", "\n"} THEN BadURL
    ELSE IF u = "*" THEN [ok |-> EscapesOK(frag), host |-> "", path |-> "*", rawQuery |-> ""]
    ELSE ParseScheme(getScheme(u), frag)

\* url.Parse: [ok, host, path, rawQuery]
ParseURL(raw) == ParseFragment(CutBefore(raw, "#"), CutAfter(raw, "#"))

\* Values.Get after url.ParseQuery: the first value of `key`; a pair holding
\* ';' or a malformed escape is dropped
RECURSIVE QueryGet(_, _)
QueryKV(k, v, more, key) ==
    IF ~k.ok \/ ~v.ok \/ k.s # key THEN QueryGet(more, key) ELSE v.s

QueryPair(pair, more, key) ==
    IF pair = "" \/ Contains(pair, ";") THEN QueryGet(more, key)
    ELSE QueryKV(QueryUnescape(CutBefore(pair, "=")), QueryUnescape(CutAfter(pair, "=")), more, key)

QueryGet(q, key) ==
    IF q = "" THEN "" ELSE QueryPair(CutBefore(q, "&"), CutAfter(q, "&"), key)

(***************************************************************************)
(* path/filepath and the digest, as generateFilename uses them.            *)
(***************************************************************************)
RECURSIVE TrimSlashes(_)
TrimSlashes(p) ==
    IF p # "" /\ Ch(p, Len(p)) = "/" THEN TrimSlashes(SubSeq(p, 1, Len(p) - 1)) ELSE p

OrSlash(e) == IF e = "" THEN "/" ELSE e

LastElem(t) == DropFirst(t, LastIndex(t, "/"))

\* filepath.Base
Base(path) == IF path = "" THEN "." ELSE OrSlash(LastElem(TrimSlashes(path)))

DotFrom(e, i) == IF i = 0 THEN "" ELSE DropFirst(e, i - 1)

ExtOf(e) == DotFrom(e, LastIndex(e, "."))

\* filepath.Ext: from the last '.' of the last element
Ext(path) == ExtOf(LastElem(path))

\* filepath.Join(dir, name) for a name that holds no '/': Clean(dir/name)
Join(dir, name) ==
    IF name = "." THEN dir
    ELSE IF name = ".." THEN "."
    ELSE dir \o "/" \o name

CodeAt(lo, hi) == IF lo # 0 THEN 31 + lo ELSE IF hi # 0 THEN 96 + hi ELSE 9

CodeOf(c) == CodeAt(Index(PrintableLo, c), Index(PrintableHi, c))

RECURSIVE Digest(_, _)
Digest(s, h) == IF s = "" THEN h ELSE Digest(DropFirst(s, 1), (h * 31 + CodeOf(Ch(s, 1))) % 65536)

RECURSIVE Hex(_, _)
Hex(n, digits) == IF digits = 0 THEN "" ELSE Hex(n \div 16, digits - 1) \o Ch(HexDigits, (n % 16) + 1)

\* fmt.Sprintf("%x", hash[:8]) of sha256.Sum256: sixteen hex digits that depend
\* on the text alone (a 16-bit digest stands for SHA-256)
HashHex(s) == Hex(Digest(s, 7), 16)

RECURSIVE Sanitize(_)
Sanitize(s) ==
    IF s = "" THEN ""
    ELSE (IF Ch(s, 1) \in AlnumCh \cup {".", "-", "_"} THEN Ch(s, 1) ELSE "_")
         \o Sanitize(DropFirst(s, 1))

IsProxy(u) ==
    \/ u.host = "nextjs.org" /\ HasPrefix(u.path, "/_next/image")
    \/ u.host = "vercel-storage.com" /\ Contains(u.path, "/_next/image")

\* fileName = filepath.Base(decodedImageURL), when the value decodes
InnerBase(decoded) == IF decoded.ok THEN Base(decoded.s) ELSE ""

InnerOf(rawImageURL) == IF rawImageURL = "" THEN "" ELSE InnerBase(QueryUnescape(rawImageURL))

\* a derivation that never looks inside a proxy URL
InnerName_Never(parsedURL) == ""

\* the name taken from the url parameter of a proxy URL, "" when there is none
InnerName(parsedURL) ==
    IF IsProxy(parsedURL) THEN InnerOf(QueryGet(parsedURL.rawQuery, "url")) ELSE ""

\* the basename of the outer path, or image_<hash> for "." and "/"
OuterName(originalURL, base) ==
    IF base \in {".", "/"} THEN "image_" \o HashHex(originalURL) ELSE base

PickName(originalURL, parsedURL, inner) ==
    IF inner = "" THEN OuterName(originalURL, Base(parsedURL.path)) ELSE inner

\* a name without extension borrows the outer path's, or gets .jpg
AddExt(fileName, ext, pathExt) ==
    IF ext # "" THEN fileName
    ELSE IF pathExt # "" THEN fileName \o pathExt
    ELSE fileName \o ".jpg"

WithExt(fileName, path) == AddExt(fileName, Ext(fileName), Ext(path))

NameOfParsed(originalURL, parsedURL) ==
    IF ~parsedURL.ok THEN "image_" \o HashHex(originalURL) \o ".jpg"
    ELSE Sanitize(WithExt(PickName(originalURL, parsedURL, InnerName(parsedURL)), parsedURL.path))

generateFilename(originalURL) == NameOfParsed(originalURL, ParseURL(originalURL))

(***************************************************************************)
(* Bounds of the model and constants of the program.                       *)
(***************************************************************************)
\* the longest batch whose workers are all launched
MaxBatch == 2

\* the number of chunks io.Copy moves for one response body
BodyLen == 1

\* the number of request slots (handler goroutines) the model has
MaxReqs == 2

\* "Maximum 10 URLs allowed"
MaxURLs == 10

Reqs == 1..MaxReqs

\* the URLs a batch is drawn from; a batch may hold one of them twice
BatchURLs == {"http://a.io/p.png", "http://a.io/q.png"}

Builds == {"urls", "imageURLs"}

\* the URLs generateFilename is tried on: a last path element made of a stem
\* and an extension, plain and as the url parameter of an image proxy, and a
\* few URLs of other shapes
Stems == {"", "p", "a b", ".", "d/"}

Exts == {"", ".png", ".", ".b-c"}

Inners ==
    {"http://x.com/" \o st \o e : st \in Stems, e \in Exts}
    \cup {"https://x.com/pic.png", "https://x.com/b.webp?q=1", "/img/pic", "pic.png"}

\* url.QueryEscape, for the bytes the inner URLs hold
RECURSIVE QueryEscape(_)
QueryEscape(s) ==
    IF s = "" THEN ""
    ELSE (CASE Ch(s, 1) = ":" -> "%3A"
            [] Ch(s, 1) = "/" -> "%2F"
            [] Ch(s, 1) = "?" -> "%3F"
            [] Ch(s, 1) = "=" -> "%3D"
            [] Ch(s, 1) = " " -> "+"
            [] OTHER -> Ch(s, 1)) \o QueryEscape(DropFirst(s, 1))

\* the proxy URL that carries the inner URL i
ProxyOf(i) == "https://nextjs.org/_next/image?url=" \o QueryEscape(i) \o "&w=100"

ProxyURLs ==
    {ProxyOf(i) : i \in Inners}
    \cup {"https://nextjs.org/_next/image?url=https%3A%2F%2Fx.com%2Fpic.png&w=100",
          "https://vercel-storage.com/a/_next/image?w=1&url=https%3A%2F%2Fx.com%2Fb.webp%3Fq%3D1",
          "https://nextjs.org/_next/image.gif?url=http%3A%2F%2Fx.com%2Fpic",
          "https://nextjs.org/_next/image?url=%zz",
          "https://nextjs.org/_next/image?w=100",
          "https://vercel-storage.com/_next/image?url=",
          "https://nextjs.org/other?url=http%3A%2F%2Fx.com%2Fpic.png",
          "https://example.org/_next/image?url=http%3A%2F%2Fx.com%2Fpic.png"}

NameURLs ==
    {"http://a.io/" \o st \o e : st \in Stems, e \in Exts}
    \cup ProxyURLs
    \cup {"https://example.com", "http://a.io/x.tar.gz?v=1#top", "http://a b.io/x.png",
          "http://a.io/%zz.png", ":x.png", "p.png"}

URLs == BatchURLs \cup NameURLs

RECURSIVE SeqsUpTo(_, _)
SeqsUpTo(S, n) ==
    IF n = 0 THEN {<<>>}
    ELSE SeqsUpTo(S, n - 1) \cup {Append(q, x) : q \in {t \in SeqsUpTo(S, n - 1) : Len(t) = n - 1}, x \in S}

Repeat(x, n) == [i \in 1..n |-> x]

\* a request as the handler sees it: the method, whether the body decodes, the
\* decoded URL list and the zipReturn flag
Request(m, d, us, z) == [method |-> m, decodes |-> d, urls |-> us, zipReturn |-> z]

NoRequest == Request("GET", FALSE, <<>>, FALSE)

RequestsOver(lists) ==
    {Request("GET", TRUE, <<>>, FALSE), Request("POST", FALSE, <<>>, FALSE)}
    \cup {Request("POST", TRUE, us, z) : us \in lists, z \in BOOLEAN}

\* the response body of one URL, in chunks, and what a file holds where
\* nothing was written
Chunk(u, j) == [url |-> u, n |-> j]

Hole == Chunk("", 0)

Body(u) == [j \in 1..BodyLen |-> Chunk(u, j)]

NoIno == <<0, 0>>

VARIABLES
    build,            \* which build of the server runs
    req,              \* per slot: the request
    hpc,              \* per slot: where downloadHandler stands
    status,           \* per slot: the status code answered, 0 before
    json,             \* per slot: the JSON answer, as a sequence of at most one record
    wg,               \* per slot: the WaitGroup counter
    errChan,          \* per slot: the error channel, [buf, closed]
    downloadedFiles,  \* per slot: the list of file paths
    errorCount,       \* per slot: errorCount (imageURLs build)
    hasErrors,        \* per slot: hasErrors (urls build)
    worker,           \* per slot: the downloadImage goroutines launched, in order
    zipNext,          \* per slot: the index the archive loop stands at
    archive,          \* per slot: the entries written to the zip.Writer
    zipClosed,        \* per slot: zipWriter.Close has run
    dirExists,        \* the build's directory exists
    files,            \* path -> inode, for the paths that exist
    data,             \* inode -> content
    aged,             \* paths last modified more than 24 hours ago
    crashed           \* a goroutine panicked: the process is gone

vars == <<build, req, hpc, status, json, wg, errChan, downloadedFiles, errorCount,
          hasErrors, worker, zipNext, archive, zipClosed, dirExists, files, data,
          aged, crashed>>

hvars == <<wg, errChan, downloadedFiles, errorCount, hasErrors, worker, zipNext,
           archive, zipClosed>>

fsvars == <<dirExists, files, data, aged>>

destDir == IF build = "urls" THEN "downloaded_images" ELSE "temp_downloads"

\* generateFilename over the URLs of the model, derived once
FileNameOf == [u \in URLs |-> generateFilename(u)]

\* whether url.Parse returns no error
Parses == [u \in URLs |-> ParseURL(u).ok]

\* a channel one slot short of the batch
ChanCap_OneShort(r) == Len(req[r].urls) - 1

\* make(chan error, len(urls))
ChanCap(r) == Len(req[r].urls)

InitWith(requests, active) ==
    /\ build \in Builds
    /\ req \in [Reqs -> requests \cup {NoRequest}]
    /\ \A r \in Reqs : IF r \in active
                       THEN req[r] \in requests /\ (build = "imageURLs" => ~req[r].zipReturn)
                       ELSE req[r] = NoRequest
    /\ hpc = [r \in Reqs |-> IF r \in active THEN "method" ELSE "off"]
    /\ status = [r \in Reqs |-> 0]
    /\ json = [r \in Reqs |-> <<>>]
    /\ wg = [r \in Reqs |-> 0]
    /\ errChan = [r \in Reqs |-> [buf |-> <<>>, closed |-> FALSE]]
    /\ downloadedFiles = [r \in Reqs |-> <<>>]
    /\ errorCount = [r \in Reqs |-> 0]
    /\ hasErrors = [r \in Reqs |-> FALSE]
    /\ worker = [r \in Reqs |-> <<>>]
    /\ zipNext = [r \in Reqs |-> 0]
    /\ archive = [r \in Reqs |-> <<>>]
    /\ zipClosed = [r \in Reqs |-> FALSE]
    /\ dirExists = FALSE
    /\ files = <<>>
    /\ data = <<>>
    /\ aged = {}
    /\ crashed = FALSE

\* one request, of at most MaxBatch URLs
Init == InitWith(RequestsOver(SeqsUpTo(BatchURLs, MaxBatch)), {1})

(***************************************************************************)
(* downloadHandler, one action per step.                                   *)
(***************************************************************************)
Goto(r, pc) == hpc' = [hpc EXCEPT ![r] = pc]

\* the handler of slot r stands at pc, and the process runs
Stands(r, pc) == ~crashed /\ hpc[r] = pc

\* http.Error(w, ..., code); return
Fail(r, code, pc) == status' = [status EXCEPT ![r] = code] /\ Goto(r, pc)

Restrict(f, S) == [x \in S |-> f[x]]

\* the inodes some running worker holds open
OpenInos ==
    UNION {{worker[r][k].ino : k \in {j \in 1..Len(worker[r]) : worker[r][j].pc = "copy"}} : r \in Reqs}

\* the file system after the paths in `gone` are unlinked
Unlink(gone) ==
    LET kept == Restrict(files, DOMAIN files \ gone)
    IN  /\ files' = kept
        /\ data' = Restrict(data, {i \in DOMAIN data : i \in OpenInos \/ \E p \in DOMAIN kept : kept[p] = i})
        /\ aged' = aged \ gone

HMethod(r) ==
    /\ Stands(r, "method")
    /\ IF req[r].method # "POST" THEN Fail(r, 405, "done")
       ELSE Goto(r, "decode") /\ UNCHANGED status
    /\ UNCHANGED <<build, req, json, hvars, fsvars, crashed>>

HDecode(r) ==
    /\ Stands(r, "decode")
    /\ IF ~req[r].decodes THEN Fail(r, 400, "done")
       ELSE Goto(r, "empty") /\ UNCHANGED status
    /\ UNCHANGED <<build, req, json, hvars, fsvars, crashed>>

HCheckEmpty(r) ==
    /\ Stands(r, "empty")
    /\ IF Len(req[r].urls) = 0 THEN Fail(r, 400, "done")
       ELSE Goto(r, IF build = "urls" THEN "limit" ELSE "mkdir") /\ UNCHANGED status
    /\ UNCHANGED <<build, req, json, hvars, fsvars, crashed>>

\* the length check with the limit off by one
HCheckLimit_OffByOne(r) ==
    /\ Stands(r, "limit")
    /\ IF Len(req[r].urls) > MaxURLs + 1 THEN Fail(r, 400, "done")
       ELSE Goto(r, "mkdir") /\ UNCHANGED status
    /\ UNCHANGED <<build, req, json, hvars, fsvars, crashed>>

\* only the urls build checks the length
HCheckLimit(r) ==
    /\ Stands(r, "limit")
    /\ IF Len(req[r].urls) > MaxURLs THEN Fail(r, 400, "done")
       ELSE Goto(r, "mkdir") /\ UNCHANGED status
    /\ UNCHANGED <<build, req, json, hvars, fsvars, crashed>>

\* a handler that drops the error of os.MkdirAll and goes on
HMkdirAll_IgnoreErr(r) ==
    /\ Stands(r, "mkdir")
    /\ \E ok \in BOOLEAN :
          /\ dirExists' = (dirExists \/ ok)
          /\ Goto(r, IF build = "urls" THEN "clean" ELSE "loop")
          /\ UNCHANGED status
    /\ UNCHANGED <<build, req, json, hvars, files, data, aged, crashed>>

\* os.MkdirAll(destDir, 0755) succeeds or fails
HMkdirAll(r) ==
    /\ Stands(r, "mkdir")
    /\ \E ok \in BOOLEAN :
          IF ok THEN /\ dirExists' = TRUE
                     /\ Goto(r, IF build = "urls" THEN "clean" ELSE "loop")
                     /\ UNCHANGED status
          ELSE Fail(r, 500, "done") /\ UNCHANGED dirExists
    /\ UNCHANGED <<build, req, json, hvars, files, data, aged, crashed>>

\* if time.Now().Hour() == 0 { cleanOldFiles(destDir) }: the urls build
HCleanOldFiles(r) ==
    /\ Stands(r, "clean")
    /\ \E midnight \in BOOLEAN :
          IF midnight THEN Unlink(aged) ELSE UNCHANGED <<files, data, aged>>
    /\ Goto(r, "loop")
    /\ UNCHANGED <<build, req, status, json, hvars, dirExists, crashed>>

\* a loop that starts the goroutine and forgets to record its location
HLaunch_NoRecord(r) ==
    /\ Stands(r, "loop")
    /\ Len(worker[r]) < MaxBatch
    /\ LET i        == Len(worker[r]) + 1
           url      == req[r].urls[i]
           filePath == Join(destDir, FileNameOf[url])
       IN  /\ wg' = [wg EXCEPT ![r] = @ + 1]
           /\ worker' = [worker EXCEPT ![r] = Append(@, [pc |-> "get", url |-> url,
                             filePath |-> filePath, off |-> 0, ino |-> NoIno, reported |-> FALSE])]
           /\ Goto(r, IF i = Len(req[r].urls) THEN "wait" ELSE "loop")
    /\ UNCHANGED <<build, req, status, json, errChan, downloadedFiles, errorCount, hasErrors,
                   zipNext, archive, zipClosed, fsvars, crashed>>

\* one iteration of the launch loop: wg.Add(1), the path, the append, the go
\* statement.  The model launches at most MaxBatch goroutines.
HLaunch(r) ==
    /\ Stands(r, "loop")
    /\ Len(downloadedFiles[r]) < MaxBatch
    /\ LET i        == Len(downloadedFiles[r]) + 1
           url      == req[r].urls[i]
           filePath == Join(destDir, FileNameOf[url])
       IN  /\ wg' = [wg EXCEPT ![r] = @ + 1]
           /\ downloadedFiles' = [downloadedFiles EXCEPT ![r] = Append(@, filePath)]
           /\ worker' = [worker EXCEPT ![r] = Append(@, [pc |-> "get", url |-> url,
                             filePath |-> filePath, off |-> 0, ino |-> NoIno, reported |-> FALSE])]
           /\ Goto(r, IF i = Len(req[r].urls) THEN "wait" ELSE "loop")
    /\ UNCHANGED <<build, req, status, json, errChan, errorCount, hasErrors, zipNext,
                   archive, zipClosed, fsvars, crashed>>

\* a wait that returns while one worker has still to call wg.Done
HWait_OneLeft(r) ==
    /\ Stands(r, "wait")
    /\ wg[r] <= 1
    /\ Goto(r, "close")
    /\ UNCHANGED <<build, req, status, json, hvars, fsvars, crashed>>

\* a wait that returns whatever the counter is
HWait_NoBarrier(r) ==
    /\ Stands(r, "wait")
    /\ Goto(r, "close")
    /\ UNCHANGED <<build, req, status, json, hvars, fsvars, crashed>>

\* wg.Wait() returns when the counter is zero
HWait(r) ==
    /\ Stands(r, "wait")
    /\ wg[r] = 0
    /\ Goto(r, "close")
    /\ UNCHANGED <<build, req, status, json, hvars, fsvars, crashed>>

\* close(errChan); closing a closed channel panics
HClose(r) ==
    /\ Stands(r, "close")
    /\ IF errChan[r].closed
       THEN crashed' = TRUE /\ UNCHANGED <<errChan, hpc>>
       ELSE /\ errChan' = [errChan EXCEPT ![r].closed = TRUE]
            /\ Goto(r, "drain")
            /\ UNCHANGED crashed
    /\ UNCHANGED <<build, req, status, json, wg, downloadedFiles, errorCount, hasErrors,
                   worker, zipNext, archive, zipClosed, fsvars>>

\* for err := range errChan: one receive
HDrainRecv(r) ==
    /\ Stands(r, "drain")
    /\ errChan[r].buf # <<>>
    /\ errChan' = [errChan EXCEPT ![r].buf = Tail(@)]
    /\ IF build = "urls"
       THEN hasErrors' = [hasErrors EXCEPT ![r] = TRUE] /\ UNCHANGED errorCount
       ELSE errorCount' = [errorCount EXCEPT ![r] = @ + 1] /\ UNCHANGED hasErrors
    /\ UNCHANGED <<build, req, hpc, status, json, wg, downloadedFiles, worker, zipNext,
                   archive, zipClosed, fsvars, crashed>>

\* the range loop ends once the channel is closed and empty
HDrainEnd(r) ==
    /\ Stands(r, "drain")
    /\ errChan[r].buf = <<>>
    /\ errChan[r].closed
    /\ Goto(r, "respond")
    /\ UNCHANGED <<build, req, status, json, hvars, fsvars, crashed>>

\* if len(downloadedFiles) == 0 { 500 }: the imageURLs build
HCheckNone(r) ==
    /\ Stands(r, "respond")
    /\ build = "imageURLs"
    /\ IF Len(downloadedFiles[r]) = 0 THEN Fail(r, 500, "remove")
       ELSE Goto(r, "zipstart") /\ UNCHANGED status
    /\ UNCHANGED <<build, req, json, hvars, fsvars, crashed>>

\* the JSON answer of the urls build
HJson(r) ==
    /\ Stands(r, "respond")
    /\ build = "urls"
    /\ ~req[r].zipReturn
    /\ json' = [json EXCEPT ![r] = <<[success    |-> ~hasErrors[r],
                                      savedPaths |-> downloadedFiles[r],
                                      errorCount |-> Len(req[r].urls) - Len(downloadedFiles[r])]>>]
    /\ Fail(r, 200, "done")
    /\ UNCHANGED <<build, req, hvars, fsvars, crashed>>

\* the headers and zip.NewWriter(w)
HZipStart(r) ==
    /\ \/ Stands(r, "zipstart")
       \/ Stands(r, "respond") /\ build = "urls" /\ req[r].zipReturn
    /\ zipNext' = [zipNext EXCEPT ![r] = 1]
    /\ Fail(r, 200, "zip")
    /\ UNCHANGED <<build, req, json, wg, errChan, downloadedFiles, errorCount, hasErrors,
                   worker, archive, zipClosed, fsvars, crashed>>

Entry(path, content) == [name |-> Base(path), data |-> content]

\* an archive loop that stops at the first member it cannot open
HZipFile_Break(r) ==
    /\ Stands(r, "zip")
    /\ zipNext[r] <= Len(downloadedFiles[r])
    /\ LET filePath == downloadedFiles[r][zipNext[r]]
       IN  IF filePath \in DOMAIN files
           THEN /\ archive' = [archive EXCEPT ![r] = Append(@, Entry(filePath, data[files[filePath]]))]
                /\ zipNext' = [zipNext EXCEPT ![r] = @ + 1]
           ELSE /\ UNCHANGED archive
                /\ zipNext' = [zipNext EXCEPT ![r] = Len(downloadedFiles[r]) + 1]
    /\ UNCHANGED <<build, req, hpc, status, json, wg, errChan, downloadedFiles, errorCount,
                   hasErrors, worker, zipClosed, fsvars, crashed>>

\* one iteration of the archive loop: os.Open, zipWriter.Create, io.Copy; each
\* may fail, and a failed copy leaves the entry with part of the file
HZipFile(r) ==
    /\ Stands(r, "zip")
    /\ zipNext[r] <= Len(downloadedFiles[r])
    /\ LET filePath == downloadedFiles[r][zipNext[r]]
           there    == filePath \in DOMAIN files
           content  == IF there THEN data[files[filePath]] ELSE <<>>
       IN  \E out \in {"open", "create", "copy", "ok"} :
              /\ out # "open" => there
              /\ \/ out \in {"open", "create"} /\ UNCHANGED archive
                 \/ /\ out = "copy"
                    /\ \E n \in 0..(Len(content) - 1) :
                          archive' = [archive EXCEPT ![r] = Append(@, Entry(filePath, SubSeq(content, 1, n)))]
                 \/ /\ out = "ok"
                    /\ archive' = [archive EXCEPT ![r] = Append(@, Entry(filePath, content))]
    /\ zipNext' = [zipNext EXCEPT ![r] = @ + 1]
    /\ UNCHANGED <<build, req, hpc, status, json, wg, errChan, downloadedFiles, errorCount,
                   hasErrors, worker, zipClosed, fsvars, crashed>>

\* defer zipWriter.Close()
HZipClose(r) ==
    /\ Stands(r, "zip")
    /\ zipNext[r] > Len(downloadedFiles[r])
    /\ zipClosed' = [zipClosed EXCEPT ![r] = TRUE]
    /\ Goto(r, IF build = "imageURLs" THEN "remove" ELSE "done")
    /\ UNCHANGED <<build, req, status, json, wg, errChan, downloadedFiles, errorCount,
                   hasErrors, worker, zipNext, archive, dirExists, files, data, aged, crashed>>

\* a return that leaves the directory behind
HRemoveAll_Skip(r) ==
    /\ Stands(r, "remove")
    /\ Goto(r, "done")
    /\ UNCHANGED <<build, req, status, json, hvars, fsvars, crashed>>

\* defer os.RemoveAll(destDir): the imageURLs build
HRemoveAll(r) ==
    /\ Stands(r, "remove")
    /\ Unlink(DOMAIN files)
    /\ dirExists' = FALSE
    /\ Goto(r, "done")
    /\ UNCHANGED <<build, req, status, json, hvars, crashed>>

\* a day passes with no request in flight: every file is now old
Age ==
    /\ ~crashed
    /\ \A r \in Reqs : hpc[r] \in {"off", "done"}
    /\ aged # DOMAIN files
    /\ aged' = DOMAIN files
    /\ UNCHANGED <<build, req, hpc, status, json, hvars, dirExists, files, data, crashed>>

(***************************************************************************)
(* downloadImage, one action per step of worker k of slot r.               *)
(***************************************************************************)
Workers(r) == 1..Len(worker[r])

\* worker k of slot r stands at pc, and the process runs
At(r, k, pc) == ~crashed /\ k \in Workers(r) /\ worker[r][k].pc = pc

\* fmt.Errorf builds the error and the goroutine stands at its send; the text
\* of the error is not kept, the handler only logs it
Raise(r, k) == worker' = [worker EXCEPT ![r][k].pc = "send"]

WriteAt(content, off, c) ==
    IF Len(content) > off THEN [content EXCEPT ![off + 1] = c]
    ELSE content \o [i \in 1..(off - Len(content)) |-> Hole] \o <<c>>

\* a path os.Create can make a file at: a name inside the directory
IsFilePath(p) == HasPrefix(p, destDir \o "/")

\* client.Get and the status check: a transport error or timeout, a status
\* other than 200, or a response to copy
WGet(r, k) ==
    /\ At(r, k, "get")
    /\ \E out \in {"ok", "fetch", "status"} :
          IF out = "ok" THEN worker' = [worker EXCEPT ![r][k].pc = "create"]
          ELSE Raise(r, k)
    /\ UNCHANGED <<build, req, hpc, status, json, wg, errChan, downloadedFiles, errorCount,
                   hasErrors, zipNext, archive, zipClosed, fsvars, crashed>>

\* os.Create(filePath): fails, or truncates the file that is there, or makes one
WCreate(r, k) ==
    /\ At(r, k, "create")
    /\ LET p == worker[r][k].filePath
       IN  \E ok \in BOOLEAN :
              /\ ok => dirExists /\ IsFilePath(p)
              /\ IF ~ok THEN Raise(r, k) /\ UNCHANGED <<files, data, aged>>
                 ELSE LET ino == IF p \in DOMAIN files THEN files[p] ELSE <<r, k>>
                      IN  /\ files' = (p :> ino) @@ files
                          /\ data' = (ino :> <<>>) @@ data
                          /\ aged' = aged \ {p}
                          /\ worker' = [worker EXCEPT ![r][k].pc = "copy", ![r][k].ino = ino]
    /\ UNCHANGED <<build, req, hpc, status, json, wg, errChan, downloadedFiles, errorCount,
                   hasErrors, zipNext, archive, zipClosed, dirExists, crashed>>

\* io.Copy(file, resp.Body): the next chunk is written at this file handle's offset
WCopy(r, k) ==
    /\ At(r, k, "copy")
    /\ worker[r][k].off < BodyLen
    /\ LET w == worker[r][k]
       IN  /\ data' = [data EXCEPT ![w.ino] = WriteAt(@, w.off, Body(w.url)[w.off + 1])]
           /\ worker' = [worker EXCEPT ![r][k].off = @ + 1]
           /\ aged' = aged \ {w.filePath}
    /\ UNCHANGED <<build, req, hpc, status, json, wg, errChan, downloadedFiles, errorCount,
                   hasErrors, zipNext, archive, zipClosed, dirExists, files, crashed>>

\* io.Copy fails, at any point of the body
WCopyErr(r, k) ==
    /\ At(r, k, "copy")
    /\ Raise(r, k)
    /\ UNCHANGED <<build, req, hpc, status, json, wg, errChan, downloadedFiles, errorCount,
                   hasErrors, zipNext, archive, zipClosed, fsvars, crashed>>

\* io.Copy returns nil at the end of the body
WCopyEnd(r, k) ==
    /\ At(r, k, "copy")
    /\ worker[r][k].off = BodyLen
    /\ worker' = [worker EXCEPT ![r][k].pc = "ret"]
    /\ UNCHANGED <<build, req, hpc, status, json, wg, errChan, downloadedFiles, errorCount,
                   hasErrors, zipNext, archive, zipClosed, fsvars, crashed>>

\* a worker that sends its error and stays where it can send it again
WSend_Again(r, k) ==
    /\ At(r, k, "send")
    /\ ~errChan[r].closed
    /\ Len(errChan[r].buf) < ChanCap(r)
    /\ errChan' = [errChan EXCEPT ![r].buf = Append(@, k)]
    /\ \E again \in BOOLEAN :
          worker' = [worker EXCEPT ![r][k].pc = IF again THEN "send" ELSE "ret",
                                   ![r][k].reported = TRUE]
    /\ UNCHANGED <<build, req, hpc, status, json, wg, downloadedFiles, errorCount,
                   hasErrors, zipNext, archive, zipClosed, fsvars, crashed>>

\* errChan <- err: blocks while the buffer is full, panics on a closed channel;
\* the buffer holds, for each error, the index of the task that sent it
WSend(r, k) ==
    /\ At(r, k, "send")
    /\ IF errChan[r].closed
       THEN crashed' = TRUE /\ UNCHANGED <<errChan, worker>>
       ELSE /\ Len(errChan[r].buf) < ChanCap(r)
            /\ errChan' = [errChan EXCEPT ![r].buf = Append(@, k)]
            /\ worker' = [worker EXCEPT ![r][k].pc = "ret", ![r][k].reported = TRUE]
            /\ UNCHANGED crashed
    /\ UNCHANGED <<build, req, hpc, status, json, wg, downloadedFiles, errorCount,
                   hasErrors, zipNext, archive, zipClosed, fsvars>>

\* the return: the deferred file.Close, resp.Body.Close and wg.Done
WReturn(r, k) ==
    /\ At(r, k, "ret")
    /\ wg' = [wg EXCEPT ![r] = @ - 1]
    /\ worker' = [worker EXCEPT ![r][k].pc = "done", ![r][k].off = 0, ![r][k].ino = NoIno]
    /\ UNCHANGED <<build, req, hpc, status, json, errChan, downloadedFiles, errorCount,
                   hasErrors, zipNext, archive, zipClosed, fsvars, crashed>>

Next ==
    \/ \E r \in Reqs :
          \/ HMethod(r) \/ HDecode(r) \/ HCheckEmpty(r) \/ HCheckLimit(r)
          \/ HMkdirAll(r) \/ HCleanOldFiles(r) \/ HLaunch(r) \/ HWait(r) \/ HClose(r)
          \/ HDrainRecv(r) \/ HDrainEnd(r) \/ HCheckNone(r) \/ HJson(r)
          \/ HZipStart(r) \/ HZipFile(r) \/ HZipClose(r) \/ HRemoveAll(r)
    \/ \E r \in Reqs : \E k \in 1..MaxBatch :
          \/ WGet(r, k) \/ WCreate(r, k) \/ WCopy(r, k) \/ WCopyErr(r, k)
          \/ WCopyEnd(r, k) \/ WSend(r, k) \/ WReturn(r, k)
    \/ Age

Spec == Init /\ [][Next]_vars

\* the handler goroutine of slot r, and worker goroutine k of slot r
Handler(r) ==
    \/ HMethod(r) \/ HDecode(r) \/ HCheckEmpty(r) \/ HCheckLimit(r)
    \/ HMkdirAll(r) \/ HCleanOldFiles(r) \/ HLaunch(r) \/ HWait(r) \/ HClose(r)
    \/ HDrainRecv(r) \/ HDrainEnd(r) \/ HCheckNone(r) \/ HJson(r)
    \/ HZipStart(r) \/ HZipFile(r) \/ HZipClose(r) \/ HRemoveAll(r)

Worker(r, k) ==
    \/ WGet(r, k) \/ WCreate(r, k) \/ WCopy(r, k) \/ WCopyErr(r, k)
    \/ WCopyEnd(r, k) \/ WSend(r, k) \/ WReturn(r, k)

\* the batch of n URLs that alternates the two
Batch(n) == [i \in 1..n |-> IF i % 2 = 1 THEN "http://a.io/p.png" ELSE "http://a.io/q.png"]

\* one request, with the batch of each size up to MaxBatch
InitFair == InitWith(RequestsOver({Batch(n) : n \in 0..MaxBatch}), {1})

\* The Go scheduler runs every goroutine that can run, and every fetch ends
\* (the client has a 30 second timeout): each goroutine that can take a step
\* eventually takes one.
FairSpec ==
    /\ InitFair
    /\ [][Next]_vars
    /\ \A r \in Reqs : WF_vars(Handler(r))
    /\ \A r \in Reqs : \A k \in 1..MaxBatch : WF_vars(Worker(r, k))

\* one request whose list has 0 to MaxURLs + 1 entries; of a list longer than
\* MaxBatch only the first MaxBatch workers are launched
InitLimit == InitWith(RequestsOver({Repeat("http://a.io/p.png", n) : n \in 0..(MaxURLs + 1)}), {1})

SpecLimit == InitLimit /\ [][Next]_vars

\* two requests of one URL each, served by the same process: net/http runs
\* downloadHandler in a goroutine per connection, so the two may overlap or
\* follow one another
InitTwo == InitWith(RequestsOver({<<u>> : u \in BatchURLs}), {1, 2})

SpecTwo == InitTwo /\ [][Next]_vars

\* one request of one URL, drawn from the URLs generateFilename is tried on
InitNames == InitWith(RequestsOver({<<u>> : u \in NameURLs}), {1})

SpecNames == InitNames /\ [][Next]_vars

(***************************************************************************)
(* What the claims speak of.                                               *)
(***************************************************************************)
NumURLs(r) == Len(req[r].urls)

\* the handler has passed wg.Wait() and close(errChan) and emptied the channel
Drained(r) == errChan[r].closed /\ hpc[r] # "drain"

\* worker k sent an error / ended without sending one
Failed(r, k) == worker[r][k].reported

Succeeded(r, k) == worker[r][k].pc = "done" /\ ~worker[r][k].reported

NumFailed(r) == Cardinality({k \in Workers(r) : Failed(r, k)})

NumSucceeded(r) == Cardinality({k \in Workers(r) : Succeeded(r, k)})

\* the list the handler archives or returns as saved paths
SuccessList(r) == downloadedFiles[r]

InSuccessList(r, p) == \E j \in 1..Len(SuccessList(r)) : SuccessList(r)[j] = p

\* the failures the handler counts: errorCount, or the ErrorCount it computes
FailureCount(r) ==
    IF build = "imageURLs" THEN errorCount[r] ELSE NumURLs(r) - Len(downloadedFiles[r])

(***************************************************************************)
(* C1: a location is in the list the handler treats as successful if and   *)
(* only if the worker for that location sent no error.  The code appends   *)
(* every location before its worker runs and never removes one.            *)
(***************************************************************************)
C1_SuccessIffNoError ==
    \A r \in Reqs : Drained(r) =>
        \A k \in Workers(r) : InSuccessList(r, worker[r][k].filePath) <=> ~Failed(r, k)

(***************************************************************************)
(* C2: once the channel is drained, the length of the success list plus    *)
(* the failures counted equals the number of URLs.                         *)
(***************************************************************************)
C2_SuccessesPlusFailures ==
    \A r \in Reqs : Drained(r) => Len(SuccessList(r)) + FailureCount(r) = NumURLs(r)

(***************************************************************************)
(* C3: when every worker of the batch sent an error, the request fails:    *)
(* status 500, or a JSON answer with success=false and errorCount equal to *)
(* the number of URLs; and the archive has no entry.                       *)
(***************************************************************************)
AllFailed(r) == Workers(r) # {} /\ \A k \in Workers(r) : Failed(r, k)

C3_AllFailedIsFailure ==
    \A r \in Reqs : (hpc[r] = "done" /\ AllFailed(r)) =>
        /\ \/ status[r] = 500
           \/ /\ json[r] # <<>>
              /\ ~json[r][1].success
              /\ json[r][1].errorCount = NumURLs(r)
        /\ archive[r] = <<>>

(***************************************************************************)
(* C4: on a partly successful batch the number of files recorded or        *)
(* archived equals the number of workers that sent no error, and the error *)
(* count answered equals the number of workers that sent one.              *)
(***************************************************************************)
Partial(r) == NumFailed(r) > 0 /\ NumSucceeded(r) > 0

NumRecorded(r) == IF json[r] # <<>> THEN Len(json[r][1].savedPaths) ELSE Len(archive[r])

C4_PartialAnswer ==
    \A r \in Reqs : (hpc[r] = "done" /\ Drained(r) /\ Partial(r)) =>
        /\ NumRecorded(r) = NumSucceeded(r)
        /\ json[r] # <<>> => json[r][1].errorCount = NumFailed(r)

(***************************************************************************)
(* C5: the archive never holds more entries than there are workers that    *)
(* sent no error; the file a failed worker left behind is not archived.    *)
(***************************************************************************)
C5_ArchiveAtMostSuccesses ==
    \A r \in Reqs : Drained(r) => Len(archive[r]) <= NumSucceeded(r)

(***************************************************************************)
(* C6: join barrier.  Whenever the handler stands at close(errChan) or     *)
(* beyond, every URL of the batch has its worker and every worker has      *)
(* called wg.Done.                                                         *)
(***************************************************************************)
BeforeBarrier == {"off", "method", "decode", "empty", "limit", "mkdir", "clean", "loop", "wait"}

PassedBarrier(r) == hpc[r] \notin BeforeBarrier /\ (hpc[r] = "close" \/ errChan[r].closed)

C6_JoinBarrier ==
    \A r \in Reqs : PassedBarrier(r) =>
        /\ Len(worker[r]) = NumURLs(r)
        /\ wg[r] = 0
        /\ \A k \in Workers(r) : worker[r][k].pc = "done"

C6_Witness ==
    \E r \in Reqs :
        /\ hpc[r] = "drain"
        /\ Len(worker[r]) >= 2
        /\ \E k \in Workers(r) : Failed(r, k)
        /\ \E k \in Workers(r) : Succeeded(r, k)

(***************************************************************************)
(* C7: no deadlock.  A worker that stands at its send finds room in the    *)
(* channel, and every request that came in is answered and its handler     *)
(* returns.                                                                *)
(***************************************************************************)
SendHasRoom ==
    \A r \in Reqs : \A k \in Workers(r) :
        worker[r][k].pc = "send" => Len(errChan[r].buf) < ChanCap(r)

Answered(r) == hpc[r] = "done" /\ status[r] # 0

AllAnswered == \A r \in Reqs : hpc[r] = "off" \/ Answered(r)

C7_NoDeadlock == [](~crashed /\ SendHasRoom) /\ <>AllAnswered

C7_Witness ==
    \E r \in Reqs :
        /\ Answered(r)
        /\ Len(worker[r]) >= 2
        /\ AllFailed(r)

(***************************************************************************)
(* C8: isolation.  After the barrier and until the directory is removed,   *)
(* the file of every worker that sent no error holds what that worker      *)
(* fetched, and its location is in the list, whichever workers failed.     *)
(***************************************************************************)
FileHolds(p, content) == p \in DOMAIN files /\ data[files[p]] = content

C8_Isolation ==
    \A r \in Reqs : (PassedBarrier(r) /\ hpc[r] \in {"close", "drain", "respond", "zipstart", "zip"}) =>
        \A k \in Workers(r) : Succeeded(r, k) =>
            /\ FileHolds(worker[r][k].filePath, Body(worker[r][k].url))
            /\ InSuccessList(r, worker[r][k].filePath)

(***************************************************************************)
(* C9: two distinct task indices of one batch have distinct locations.     *)
(***************************************************************************)
C9_DistinctLocations ==
    \A r \in Reqs : \A i, j \in 1..Len(downloadedFiles[r]) :
        i # j => downloadedFiles[r][i] # downloadedFiles[r][j]

(***************************************************************************)
(* C10: a POST whose list is undecodable, missing, empty or longer than    *)
(* MaxURLs is answered 400, with no directory made and no worker launched. *)
(* First for both builds; then with the over-long list refused only in the *)
(* urls build, the only one that checks the length.                        *)
(***************************************************************************)
Refused(r) == dirExists = FALSE /\ worker[r] = <<>> /\ (hpc[r] = "done" => status[r] = 400)

C10_BadListRefused ==
    \A r \in Reqs :
        (req[r].method = "POST" /\ (~req[r].decodes \/ NumURLs(r) = 0 \/ NumURLs(r) > MaxURLs))
            => Refused(r)

C10_BadListRefusedByBuild ==
    \A r \in Reqs :
        (req[r].method = "POST" /\ (\/ ~req[r].decodes
                                    \/ NumURLs(r) = 0
                                    \/ build = "urls" /\ NumURLs(r) > MaxURLs))
            => Refused(r)

C10_Witness ==
    \E r \in Reqs :
        /\ build = "urls"
        /\ req[r].method = "POST"
        /\ NumURLs(r) > MaxURLs
        /\ hpc[r] = "done"
        /\ status[r] = 400

(***************************************************************************)
(* C11: when os.MkdirAll fails the handler answers 500 and returns with no *)
(* worker launched: a handler that leaves the MkdirAll step with no        *)
(* directory there has answered 500 and is done, and a request answered    *)
(* 500 has no worker, no location, and a channel nobody sent on.           *)
(***************************************************************************)
NothingLaunched(r) ==
    /\ worker[r] = <<>>
    /\ wg[r] = 0
    /\ downloadedFiles[r] = <<>>
    /\ errChan[r].buf = <<>>

MkdirFailedStep(r) == hpc[r] = "mkdir" /\ hpc'[r] # "mkdir" /\ ~dirExists'

C11_MkdirFailureIsFatal ==
    /\ [][\A r \in Reqs : MkdirFailedStep(r) => (hpc'[r] = "done" /\ status'[r] = 500)]_vars
    /\ [](\A r \in Reqs : status[r] = 500 => (hpc[r] = "done" /\ NothingLaunched(r)))

C11_Witness ==
    \E r \in Reqs :
        /\ hpc[r] = "done"
        /\ status[r] = 500
        /\ NumURLs(r) >= 2
        /\ ~dirExists

(***************************************************************************)
(* C12: scratch storage is request-scoped.  Whenever some request that got *)
(* past MkdirAll is done and no request is between MkdirAll and its        *)
(* return, the directory and every file in it are gone, so the next        *)
(* request starts with nothing an earlier one fetched.  First for both     *)
(* builds; then for the imageURLs build, the only one that removes its     *)
(* directory: the urls build keeps downloaded_images and, at midnight,     *)
(* drops the files older than a day.                                       *)
(***************************************************************************)
BeforeMkdir == {"off", "method", "decode", "empty", "limit", "mkdir"}

\* no handler stands between its MkdirAll and its return
NoneInFlight == \A r \in Reqs : hpc[r] \in BeforeMkdir \cup {"done"}

\* the handler of slot r returned after its MkdirAll succeeded
ReturnedAfterMkdir(r) == hpc[r] = "done" /\ status[r] = 200

StorageGone == ~dirExists /\ files = <<>>

AllIn(s, S) == \A i \in 1..Len(s) : Ch(s, i) \in S

\* the pattern has one dot followed by letters and digits only, so that dot
\* is the last one of the name
SplitsAt(s, dot) ==
    /\ dot >= 2
    /\ dot < Len(s)
    /\ AllIn(SubSeq(s, 1, dot - 1), AlnumCh \cup {".", "_", "-"})
    /\ AllIn(DropFirst(s, dot), AlnumCh)

MatchesPattern(s) == SplitsAt(s, LastIndex(s, "."))

\* worker k of slot r was given the location of the name derived from its URL
Named(r, k) == worker[r][k].filePath = Join(destDir, FileNameOf[worker[r][k].url])

C13_NameMatchesPattern ==
    \A r \in Reqs : \A k \in Workers(r) :
        /\ Named(r, k)
        /\ Parses[worker[r][k].url] => MatchesPattern(FileNameOf[worker[r][k].url])

(***************************************************************************)
(* C14: proxy unwrap.  For a nextjs.org/_next/image URL whose url          *)
(* parameter carries an inner URL, the name is the sanitized basename of   *)
(* the inner URL (of the decoded text as it stands), followed by an        *)
(* extension when that basename has none; never the name of the outer      *)
(* path.  The inner https://x.com/pic.png gives pic.png.                   *)
(***************************************************************************)
\* the name derived for the inner URL i is its sanitized basename
UnwrapsTo(name, base) ==
    IF Ext(base) # "" THEN name = Sanitize(base)
    ELSE HasPrefix(name, Sanitize(base)) /\ Len(name) > Len(base)

C15_AllRecordedBeforeFirst ==
    \A r \in Reqs : worker[r] # <<>> => Len(downloadedFiles[r]) = NumURLs(r)

\* the handler of slot r left the launch loop
PastLoop(r) == hpc[r] \notin BeforeMkdir \cup {"clean", "loop", "done"} \/ ReturnedAfterMkdir(r)

C15_OwnRecordedBeforeLaunch ==
    \A r \in Reqs :
        /\ \A k \in Workers(r) :
              /\ k <= Len(downloadedFiles[r])
              /\ downloadedFiles[r][k] = worker[r][k].filePath
        /\ PastLoop(r) => Len(downloadedFiles[r]) = NumURLs(r)

C15_Witness ==
    \E r \in Reqs :
        /\ hpc[r] = "loop"
        /\ NumURLs(r) = 2
        /\ Len(downloadedFiles[r]) = 1
        /\ worker[r][1].pc \notin {"get"}

(***************************************************************************)
(* C16: a worker sends at most one error, after its own attempt has ended, *)
(* and calls wg.Done once on every path.  The channel never holds more     *)
(* entries than the batch has URLs, no worker has two entries in it, the   *)
(* sender of an entry is at its return or gone, the counter is the number  *)
(* of workers that have not returned, and when the handler closes the      *)
(* channel it holds one entry per failed worker.                           *)
(***************************************************************************)
Senders(r) == {errChan[r].buf[i] : i \in 1..Len(errChan[r].buf)}

Running(r) == {k \in Workers(r) : worker[r][k].pc # "done"}

C16_OneErrorOneDone ==
    \A r \in Reqs :
        /\ Len(errChan[r].buf) <= NumURLs(r)
        /\ Cardinality(Senders(r)) = Len(errChan[r].buf)
        /\ \A k \in Senders(r) :
              /\ k \in Workers(r)
              /\ worker[r][k].pc \in {"ret", "done"}
              /\ Failed(r, k)
        /\ wg[r] = Cardinality(Running(r))
        /\ hpc[r] = "close" => Senders(r) = {k \in Workers(r) : Failed(r, k)}
        /\ ~crashed

C16_Witness ==
    \E r \in Reqs :
        /\ hpc[r] = "close"
        /\ NumURLs(r) = 2
        /\ Len(errChan[r].buf) = 1
        /\ NumSucceeded(r) = 1

(***************************************************************************)
(* C17: archive assembly is skip-and-continue.  The loop moves from one    *)
(* listed location to the next whatever became of the member, adding at    *)
(* most the entry of the location it stands at; the entries are in list    *)
(* order; and the zip writer is closed only when every location has been   *)
(* attempted, also when none made it into the archive.                     *)
(***************************************************************************)
\* the archive loop of slot r takes a step
ZipStep(r) == zipNext[r] >= 1 /\ zipNext'[r] # zipNext[r]

\* the step attempts the location it stands at, and no other
AttemptsNext(r) ==
    /\ zipNext'[r] = zipNext[r] + 1
    /\ zipNext[r] <= Len(downloadedFiles[r])
    /\ ~zipClosed[r]
    /\ \/ archive'[r] = archive[r]
       \/ /\ Len(archive'[r]) = Len(archive[r]) + 1
          /\ SubSeq(archive'[r], 1, Len(archive[r])) = archive[r]
          /\ archive'[r][Len(archive'[r])].name = Base(downloadedFiles[r][zipNext[r]])

C17_SkipAndContinue ==
    /\ [][\A r \in Reqs : ZipStep(r) => AttemptsNext(r)]_vars
    /\ [](\A r \in Reqs : zipClosed[r] => zipNext[r] = Len(downloadedFiles[r]) + 1)
    /\ [][\A r \in Reqs : zipClosed[r] => (zipClosed'[r] /\ archive'[r] = archive[r])]_vars

C17_Witness ==
    \E r \in Reqs :
        /\ zipClosed[r]
        /\ Len(downloadedFiles[r]) = 2
        /\ archive[r] = <<>>
        /\ \E k \in Workers(r) : Succeeded(r, k)

(***************************************************************************)
(* C18: the error channel is closed once, after the last send of every     *)
(* worker.  No goroutine panics; the handler never stands at close with    *)
(* the channel closed; while the channel is closed no worker of the        *)
(* request is still to send or to return; and a closed channel stays       *)
(* closed and takes no entry.                                              *)
(***************************************************************************)
ClosedAfterSends(r) ==
    errChan[r].closed => \A k \in Workers(r) : worker[r][k].pc = "done"

StaysClosed(r) ==
    errChan[r].closed => (errChan'[r].closed /\ Len(errChan'[r].buf) <= Len(errChan[r].buf))

C18_ClosedOnceAfterSends ==
    /\ [](~crashed)
    /\ [](\A r \in Reqs : hpc[r] = "close" => ~errChan[r].closed)
    /\ [](\A r \in Reqs : ClosedAfterSends(r))
    /\ [][\A r \in Reqs : StaysClosed(r)]_vars

C18_Witness ==
    \E r \in Reqs :
        /\ errChan[r].closed
        /\ Len(errChan[r].buf) = 2
        /\ hpc[r] = "drain"

(***************************************************************************)
(* C19: two requests handled at the same time.  No location of one request *)
(* is a location of the other, and the file a worker of a request fetched  *)
(* in full is still there, with its content, until that request's archive  *)
(* loop has passed it.  Both requests use the one directory of the build.  *)
(***************************************************************************)
Locations(r) == {downloadedFiles[r][i] : i \in 1..Len(downloadedFiles[r])}

\* the handler of slot r is past the barrier and has not yet attempted the
\* location at index k of its list
NotYetArchived(r, k) ==
    \/ hpc[r] \in {"close", "drain", "respond", "zipstart"}
    \/ hpc[r] = "zip" /\ zipNext[r] <= k

C19_RequestsApart ==
    \A r \in Reqs : \A o \in Reqs \ {r} :
        /\ Locations(r) \cap Locations(o) = {}
        /\ \A k \in Workers(r) :
              (Succeeded(r, k) /\ NotYetArchived(r, k)) =>
                  FileHolds(worker[r][k].filePath, Body(worker[r][k].url))

(***************************************************************************)
(* C20: the answer does not depend on the order in which the workers end.  *)
(* With the outcome of every worker fixed, running the workers one after   *)
(* another in input order is one of the interleavings, and in it a         *)
(* location ends as the last worker given that location left it.  So in    *)
(* every interleaving, when the last worker of a location succeeded, the   *)
(* file the archive loop finds there holds that worker's body in full.     *)
(***************************************************************************)
\* worker k is the last of the batch that was given its location
LastAt(r, k) == \A j \in Workers(r) : worker[r][j].filePath = worker[r][k].filePath => j <= k

C20_OrderIndependent ==
    \A r \in Reqs : \A k \in Workers(r) :
        (Succeeded(r, k) /\ LastAt(r, k) /\ NotYetArchived(r, k)) =>
            FileHolds(worker[r][k].filePath, Body(worker[r][k].url))

====
